---- MODULE Spec2Model ----
(***************************************************************************)
(* Model of the Wherobots TypeScript SDK connection engine:                *)
(*   src/src/connection.ts (class Connection, lines 61-413) and            *)
(*   src/src/api-utils.ts  (retry engine and its predicates).              *)
(*                                                                         *)
(* The specifications share the variables and the actions:                 *)
(*   Spec     - a connection from construction: connect() (create, poll,   *)
(*              channel open with retries), then channel events, timeout   *)
(*              tokens and close();                                        *)
(*   SpecExec - a connection that connect() has just returned: execute()   *)
(*              calls, inbound messages, caller aborts, channel events,    *)
(*              timeout token and close();                                 *)
(*   SpecChan - the same connection when its caller never calls close():   *)
(*              the channel is torn down by its own events only.           *)
(*   SpecReclose    - SpecExec with close() called again after close();    *)
(*   SpecDispose    - SpecExec with [Symbol.dispose]() in place of close(); *)
(*   SpecEarlyClose - Spec with close() run while the channel is opening.   *)
(*   SpecLive       - SpecExec on a channel that delivers awaited messages; *)
(*   SpecRetry      - one run of asyncOperationWithRetry taken on its own.  *)
(***************************************************************************)
EXTENDS Integers, Sequences, FiniteSets, TLC

\* ------------------------------------------------------------------ bounds
MaxOps == 2
MaxPolls == 4
MaxAttempts == 6
JitterSteps == 4

\* ------------------------------------------------------- program constants
NUM_RESLIENCY_RETRIES == 3
RETRYABLE_HTTP_STATUS_CODES == {502, 503}
MIN_PROTOCOL_VERSION_FOR_CANCEL == <<1, 1, 0>>
PROTOCOL_VERSION == <<1, 0, 0>>

NonFinalStatuses ==
  {"PENDING", "PREPARING", "REQUESTED", "DEPLOYING", "DEPLOYED", "INITIALIZING"}

SessionStatus ==
  {"PENDING", "PREPARING", "PREPARE_FAILED", "REQUESTED", "DEPLOYING",
   "DEPLOY_FAILED", "DEPLOYED", "INITIALIZING", "INIT_FAILED", "READY",
   "DESTROY_REQUESTED", "DESTROYING", "DESTROY_FAILED", "DESTROYED"}

\* ------------------------------------------------------------ input spaces
Ops == 1..MaxOps
ForeignId == 0
SockIds == 1..MaxAttempts

\* protocol versions a test harness can supply; the default is PROTOCOL_VERSION
Versions == {PROTOCOL_VERSION, <<1, 1, 0>>, <<2, 0, 0>>}

\* the two sides of the cancel gate: the default version and the minimum
ExecVersions == {PROTOCOL_VERSION, MIN_PROTOCOL_VERSION_FOR_CANCEL}

Cfgs == {"ok", "noKey", "badOption"}

\* options.signal at the call of execute(): not yet aborted, or already aborted.
\* A call without a signal runs as one whose signal is never aborted:
\* combineAbortSignals skips an undefined signal.
CallerSignals == {"live", "aborted"}

\* what one fetch() attempt can end in
Timeouts == {[err |-> "TimeoutError", status |-> 0, bodyValid |-> FALSE,
              sstatus |-> "PENDING", hasUrl |-> FALSE]}

OtherErrors == {[err |-> "TypeError", status |-> 0, bodyValid |-> FALSE,
                 sstatus |-> "PENDING", hasUrl |-> FALSE]}

FailedResponses ==
  {[err |-> "none", status |-> s, bodyValid |-> FALSE,
    sstatus |-> "PENDING", hasUrl |-> FALSE] : s \in {401, 500, 502, 503}}

InvalidBodies == {[err |-> "none", status |-> 200, bodyValid |-> FALSE,
                   sstatus |-> "PENDING", hasUrl |-> FALSE]}

SessionBodies ==
  {[err |-> "none", status |-> 200, bodyValid |-> TRUE,
    sstatus |-> s, hasUrl |-> u] : s \in SessionStatus, u \in BOOLEAN}

HttpOutcomes ==
  Timeouts \cup OtherErrors \cup FailedResponses \cup InvalidBodies \cup SessionBodies

\* inbound channel messages, as the fields handleMessage reads: the frame type
\* (text or binary), whether it decodes to an object with the fields of its
\* kind (wellFormed), kind, execution_id, state and the results format
MsgIds == Ops \cup {ForeignId}

Malformed ==
  {[enc |-> c, kind |-> "other", id |-> ForeignId, state |-> "failed",
    wellFormed |-> FALSE, fmt |-> "arrow"] : c \in {"text", "binary"}}

ErrorEvents ==
  {[enc |-> c, kind |-> "error", id |-> i, state |-> "failed",
    wellFormed |-> TRUE, fmt |-> "arrow"] : c \in {"text", "binary"}, i \in MsgIds}

StateEvents ==
  {[enc |-> "text", kind |-> "state_updated", id |-> i, state |-> st,
    wellFormed |-> TRUE, fmt |-> "arrow"] :
      i \in MsgIds, st \in {"succeeded", "failed"}}

ResultEvents ==
  {[enc |-> "binary", kind |-> "execution_result", id |-> i, state |-> "succeeded",
    wellFormed |-> TRUE, fmt |-> f] : i \in MsgIds, f \in {"arrow", "json"}}
  \cup
  {[enc |-> "binary", kind |-> "execution_result", id |-> i, state |-> "failed",
    wellFormed |-> TRUE, fmt |-> "arrow"] : i \in MsgIds}

\* an execution_result sent as JSON text: its result_bytes is no Buffer
TextResultEvents ==
  {[enc |-> "text", kind |-> "execution_result", id |-> i, state |-> "succeeded",
    wellFormed |-> TRUE, fmt |-> "arrow"] : i \in MsgIds}

OtherEvents ==
  {[enc |-> "text", kind |-> "other", id |-> i, state |-> "succeeded",
    wellFormed |-> TRUE, fmt |-> "arrow"] : i \in MsgIds}

Messages ==
  Malformed \cup ErrorEvents \cup StateEvents \cup ResultEvents
    \cup TextResultEvents \cup OtherEvents

VARIABLES
  cfg, protocolVersion,
  connectPc, posts, gets, attempts, numFailedAttempts,
  nSockets, sockState, attemptAborted, tempListeners,
  addCalls, removeCalls, closeCalls,
  ws, sessionAborted, wsListeners, sockListeners,
  pc, userSig, execAborted, waits, sent, resolvedWith,
  \* history of the run, read by the properties only
  numStatuses, numNotReady, readySeen, getsAtTerminal,
  createFailures, pollFailures, sockFailures,
  recvSucc, recvResult, rejectCause, abortPhase, reclosed,
  \* one run of asyncOperationWithRetry taken on its own
  engPc, engAttempts, engLast, engSettled, engDelay,
  engPerformed, engTrue, engArgs, engThrew

engVars == <<engPc, engAttempts, engLast, engSettled, engDelay,
             engPerformed, engTrue, engArgs, engThrew>>
connVars == <<cfg, protocolVersion, engVars, connectPc, posts, gets, attempts,
              numFailedAttempts>>
sockVars == <<nSockets, sockState, attemptAborted, tempListeners,
              addCalls, removeCalls, closeCalls>>
chanVars == <<ws, sessionAborted, wsListeners, sockListeners>>
execVars == <<pc, userSig, execAborted, waits, sent, resolvedWith>>
connHist == <<numStatuses, numNotReady, readySeen, getsAtTerminal,
              createFailures, pollFailures, sockFailures>>
execHist == <<recvSucc, recvResult, rejectCause, abortPhase, reclosed>>
vars == <<connVars, sockVars, chanVars, execVars, connHist, execHist>>

\* ------------------------------------------------------------ pure helpers
\* semver.gte on <<major, minor, patch>>
SemverGte(a, b) ==
  \/ a[1] > b[1]
  \/ a[1] = b[1] /\ a[2] > b[2]
  \/ a[1] = b[1] /\ a[2] = b[2] /\ a[3] >= b[3]

ResOk(o) == o.status >= 200 /\ o.status <= 299

\* parseResponse(res, SessionResponseSchema) returns (TRUE) or throws (FALSE)
ParsesAsSession(o) == ResOk(o) /\ o.bodyValid

\* the final parse done with a schema that accepts any status
ParsesAsReadySession_anyStatus(o) == ResOk(o) /\ o.bodyValid /\ o.hasUrl

\* parseResponse(res, ReadySessionResponseSchema)
ParsesAsReadySession(o) ==
  ResOk(o) /\ o.bodyValid /\ o.sstatus = "READY" /\ o.hasUrl

\* isSessionInFinalState taking only the failure and teardown statuses as final
isSessionInFinalState_failedOnly(o) ==
  o.sstatus \notin NonFinalStatuses /\ o.sstatus # "READY"

isSessionInFinalState(o) == o.sstatus \notin NonFinalStatuses

\* shouldRetryForResiliency retrying every failed response and every error
shouldRetryForResiliency_anyFailure(attempt, o) ==
  IF attempt >= NUM_RESLIENCY_RETRIES THEN FALSE
  ELSE IF o.err = "none" /\ ~ResOk(o) THEN TRUE
  ELSE IF o.err # "none" THEN TRUE
  ELSE FALSE

\* shouldRetryForResiliency with the budget test off by one
shouldRetryForResiliency_offByOne(attempt, o) ==
  IF attempt > NUM_RESLIENCY_RETRIES THEN FALSE
  ELSE IF o.err = "none" /\ o.status \in RETRYABLE_HTTP_STATUS_CODES THEN TRUE
  ELSE IF o.err = "TimeoutError" THEN TRUE
  ELSE FALSE

shouldRetryForResiliency(attempt, o) ==
  IF attempt >= NUM_RESLIENCY_RETRIES THEN FALSE
  ELSE IF o.err = "none" /\ o.status \in RETRYABLE_HTTP_STATUS_CODES THEN TRUE
  ELSE IF o.err = "TimeoutError" THEN TRUE
  ELSE FALSE

\* the retryOn of connectToWebSocket with the budget test off by one
wsRetryOn_offByOne(attempt, failed) == failed /\ attempt <= NUM_RESLIENCY_RETRIES

\* retryOn of connectToWebSocket: (attempt, error) => error && attempt < cap
wsRetryOn(attempt, failed) == failed /\ attempt < NUM_RESLIENCY_RETRIES

\* ----------------------------------------------- what the service returned
\* These read the outcome of a request as the service produced it, not as the
\* program classifies it; only the history variables are computed from them.

\* a transient transport failure: an HTTP 502 or 503 response, or a timeout
Retryable(o) ==
  \/ o.err = "none" /\ o.status \in {502, 503}
  \/ o.err = "TimeoutError"

\* a successful response whose body is a well-formed session
ReturnsSession(o) == o.err = "none" /\ o.status = 200 /\ o.bodyValid

\* a well-formed session whose status is one of the six not-ready statuses
ReturnsNotReady(o) == ReturnsSession(o) /\ o.sstatus \in NonFinalStatuses

\* a well-formed session whose status is terminal
ReturnsTerminal(o) == ReturnsSession(o) /\ o.sstatus \notin NonFinalStatuses

ErrListener == <<"error", 0, 0>>
CloseListener == <<"close", 0, 0>>
MsgListener(e, r) == <<"message", e, r>>

\* ErrorEventSchema.safeParse(JSON.parse(e.data)) on a text frame
IsErrorEvent(m) == m.enc = "text" /\ m.wellFormed /\ m.kind = "error"

\* a result schema met by text frames only
SchemaParses_textOnly(round, m) ==
  IF round = 1
  THEN m.wellFormed /\ m.kind = "state_updated" /\ m.state = "succeeded"
  ELSE m.wellFormed /\ m.kind = "execution_result" /\ m.state = "succeeded"
       /\ m.enc = "text"

\* a schema that does not constrain the state field
SchemaParses_anyState(round, m) ==
  IF round = 1
  THEN m.wellFormed /\ m.kind = "state_updated"
  ELSE m.wellFormed /\ m.kind = "execution_result" /\ m.enc = "binary"

\* schema.parse(toParse) for the schema the wait was given
SchemaParses(round, m) ==
  IF round = 1
  THEN m.wellFormed /\ m.kind = "state_updated" /\ m.state = "succeeded"
  ELSE m.wellFormed /\ m.kind = "execution_result" /\ m.state = "succeeded"
       /\ m.enc = "binary"

\* handleMessage without the execution_id comparison
handleMessage_anyId(e, r, m) ==
  IF IsErrorEvent(m) THEN "reject"
  ELSE IF SchemaParses(r, m) THEN "resolve"
  ELSE "ignore"

\* handleMessage of the wait of execution e in round r: what it does with m
handleMessage(e, r, m) ==
  IF IsErrorEvent(m) THEN "reject"
  ELSE IF SchemaParses(r, m) /\ m.id = e THEN "resolve"
  ELSE "ignore"

RoundOf(p) == IF p = "wait1" THEN 1 ELSE 2
Pending(e) == pc[e] \in {"wait1", "wait2"}
Called(e) == pc[e] # "idle"

RECURSIVE SetToSeq(_)
SetToSeq(S) ==
  IF S = {} THEN <<>>
  ELSE LET x == CHOOSE y \in S : \A z \in S : y <= z
       IN <<x>> \o SetToSeq(S \ {x})

Count(seq, k) == Cardinality({i \in 1..Len(seq) : seq[i] = k})

\* -------------------------------------------------------------- initial states
\* the [error, result] pair of an attempt; 0 stands for null
NoOutcome == [error |-> 0, result |-> 0]

\* no run of the retry engine under observation
EngIdle ==
  /\ engPc = "idle" /\ engAttempts = 0
  /\ engLast = NoOutcome /\ engSettled = NoOutcome /\ engDelay = 0
  /\ engPerformed = 0 /\ engTrue = 0
  /\ engArgs = [attempts |-> -1, error |-> 0, result |-> 0]
  /\ engThrew = FALSE

NoOps ==
  /\ EngIdle
  /\ pc = [e \in Ops |-> "idle"]
  /\ userSig = [e \in Ops |-> "none"]
  /\ execAborted = [e \in Ops |-> FALSE]
  /\ waits = [e \in Ops |-> 0]
  /\ sent = [e \in Ops |-> <<>>]
  /\ resolvedWith = [e \in Ops |-> -1]
  /\ recvSucc = [e \in Ops |-> FALSE]
  /\ recvResult = [e \in Ops |-> FALSE]
  /\ rejectCause = [e \in Ops |-> "none"]
  /\ abortPhase = [e \in Ops |-> "none"]
  /\ reclosed = FALSE

\* a caller about to call Connection.connect(options, testHarness)
Init ==
  /\ cfg \in Cfgs
  /\ protocolVersion \in Versions
  /\ connectPc = "start"
  /\ posts = 0 /\ gets = 0 /\ attempts = 0 /\ numFailedAttempts = 0
  /\ nSockets = 0
  /\ sockState = [s \in SockIds |-> "unbuilt"]
  /\ attemptAborted = [s \in SockIds |-> FALSE]
  /\ tempListeners = [s \in SockIds |-> FALSE]
  /\ addCalls = [s \in SockIds |-> 0]
  /\ removeCalls = [s \in SockIds |-> 0]
  /\ closeCalls = [s \in SockIds |-> 0]
  /\ ws = 0
  /\ sessionAborted = FALSE
  /\ wsListeners = <<>>
  /\ sockListeners = {}
  /\ numStatuses = 0 /\ numNotReady = 0 /\ readySeen = "no"
  /\ getsAtTerminal = 0
  /\ createFailures = 0 /\ pollFailures = 0 /\ sockFailures = 0
  /\ NoOps

\* the connection connect() returns when the create call, the first poll and
\* the first channel-open attempt all succeed (a state Spec reaches)
InitReady ==
  /\ cfg = "ok"
  /\ protocolVersion \in ExecVersions
  /\ connectPc = "done"
  /\ posts = 1 /\ gets = 1 /\ attempts = 0 /\ numFailedAttempts = 0
  /\ nSockets = 1
  /\ sockState = [s \in SockIds |-> IF s = 1 THEN "open" ELSE "unbuilt"]
  /\ attemptAborted = [s \in SockIds |-> FALSE]
  /\ tempListeners = [s \in SockIds |-> FALSE]
  /\ addCalls = [s \in SockIds |-> IF s = 1 THEN 5 ELSE 0]
  /\ removeCalls = [s \in SockIds |-> IF s = 1 THEN 3 ELSE 0]
  /\ closeCalls = [s \in SockIds |-> 0]
  /\ ws = 1
  /\ sessionAborted = FALSE
  /\ wsListeners = <<ErrListener, CloseListener>>
  /\ sockListeners = {ErrListener, CloseListener}
  /\ numStatuses = 2 /\ numNotReady = 0 /\ readySeen = "withUrl"
  /\ getsAtTerminal = 1
  /\ createFailures = 0 /\ pollFailures = 0 /\ sockFailures = 0
  /\ NoOps

\* ------------------------------------------------------ connect(): provisioning
\* a constructor that checks the API key only
optionsParse_keyOnly == cfg # "noKey"

\* the constructor accepts the options: ConnectionOptionsSchemaNormalized.parse
\* succeeds and an API key is present
optionsParse == cfg = "ok"

\* Connection.connect: the constructor, then the first POST of establishSession
Connect ==
  /\ connectPc = "start"
  /\ IF ~optionsParse
     THEN /\ connectPc' = "failed"
          /\ posts' = posts
     ELSE /\ connectPc' = "creating"
          /\ posts' = 1
  /\ UNCHANGED <<cfg, protocolVersion, engVars, gets, attempts, numFailedAttempts>>
  /\ UNCHANGED <<sockVars, chanVars, execVars, connHist, execHist>>

\* openWebSocket as called by one performAttempt of connectToWebSocket:
\* the socket is constructed and gets its three temporary listeners
NewSocket(s) ==
  /\ nSockets' = s
  /\ sockState' = [sockState EXCEPT ![s] = "connecting"]
  /\ tempListeners' = [tempListeners EXCEPT ![s] = TRUE]
  /\ addCalls' = [addCalls EXCEPT ![s] = 3]

\* the create POST settles: retry engine, then parseResponse, then the first GET
CreateResponse(o) ==
  /\ connectPc = "creating"
  /\ posts < MaxAttempts
  /\ IF shouldRetryForResiliency(attempts, o)
     THEN /\ attempts' = attempts + 1
          /\ posts' = posts + 1
          /\ UNCHANGED <<connectPc, gets>>
     ELSE IF ParsesAsSession(o)
     THEN /\ connectPc' = "polling"
          /\ attempts' = 0
          /\ gets' = 1
          /\ posts' = posts
     ELSE /\ connectPc' = "failed"
          /\ UNCHANGED <<posts, gets, attempts>>
  /\ numStatuses' = IF ReturnsSession(o) THEN numStatuses + 1 ELSE numStatuses
  /\ createFailures' = IF Retryable(o) THEN createFailures + 1 ELSE createFailures
  /\ UNCHANGED <<cfg, protocolVersion, engVars, numFailedAttempts>>
  /\ UNCHANGED <<numNotReady, readySeen, getsAtTerminal, pollFailures, sockFailures>>
  /\ UNCHANGED <<sockVars, chanVars, execVars, execHist>>

\* the polling retryOn polling again when the response does not parse
pollRetryOn_swallowsParse(nFailed, o) ==
  IF shouldRetryForResiliency(nFailed, o) THEN "retryFailed"
  ELSE IF o.err = "none"
  THEN IF ~ParsesAsSession(o) THEN "retry"
       ELSE IF ~isSessionInFinalState(o) THEN "retry" ELSE "stop"
  ELSE "stop"

\* the polling retryOn giving up once the attempt index reaches the budget
pollRetryOn_attemptCap(nFailed, o) ==
  IF attempts >= NUM_RESLIENCY_RETRIES THEN "stop"
  ELSE IF shouldRetryForResiliency(nFailed, o) THEN "retryFailed"
  ELSE IF o.err = "none"
  THEN IF ~ParsesAsSession(o) THEN "throw"
       ELSE IF ~isSessionInFinalState(o) THEN "retry" ELSE "stop"
  ELSE "stop"

\* the polling retryOn charging the budget with the attempt index, which also
\* counts the polls that returned a not-ready status
pollRetryOn_sharedBudget(nFailed, o) ==
  IF shouldRetryForResiliency(attempts, o) THEN "retryFailed"
  ELSE IF o.err = "none"
  THEN IF ~ParsesAsSession(o) THEN "throw"
       ELSE IF ~isSessionInFinalState(o) THEN "retry" ELSE "stop"
  ELSE "stop"

\* the polling retryOn callback of establishSession: "retry", "stop" or "throw"
pollRetryOn(nFailed, o) ==
  IF shouldRetryForResiliency(nFailed, o) THEN "retryFailed"
  ELSE IF o.err = "none"
  THEN IF ~ParsesAsSession(o) THEN "throw"
       ELSE IF ~isSessionInFinalState(o) THEN "retry" ELSE "stop"
  ELSE "stop"

\* a failure counter that a poll without failure sets back to zero
countFailedAttempt_resets(d, n) == IF d = "retryFailed" THEN n + 1 ELSE 0

\* numFailedAttempts after the polling retryOn decided d: incremented on a
\* resiliency retry, otherwise left alone
countFailedAttempt(d, n) == IF d = "retryFailed" THEN n + 1 ELSE n

\* a poll GET settles: retryOn, then either the next GET or the end of polling
PollResponse(o) ==
  /\ connectPc = "polling"
  /\ gets < MaxPolls + MaxAttempts
  /\ ReturnsNotReady(o) => numNotReady < MaxPolls
  /\ LET d == pollRetryOn(numFailedAttempts, o)
         ended == d = "stop" /\ o.err = "none" /\ ParsesAsReadySession(o)
     IN /\ numFailedAttempts' = countFailedAttempt(d, numFailedAttempts)
        /\ IF d \in {"retryFailed", "retry"}
           THEN /\ gets' = gets + 1
                /\ attempts' = attempts + 1
                /\ UNCHANGED <<connectPc, sockVars>>
           ELSE IF ended
           THEN /\ connectPc' = "opening"
                /\ attempts' = 0
                /\ gets' = gets
                /\ NewSocket(1)
                /\ UNCHANGED <<attemptAborted, removeCalls, closeCalls>>
           ELSE /\ connectPc' = "failed"
                /\ UNCHANGED <<gets, attempts, sockVars>>
        /\ numStatuses' = IF ReturnsSession(o) THEN numStatuses + 1 ELSE numStatuses
        /\ numNotReady' = IF ReturnsNotReady(o) THEN numNotReady + 1 ELSE numNotReady
        /\ readySeen' =
             IF readySeen = "no" /\ ReturnsSession(o) /\ o.sstatus = "READY"
             THEN (IF o.hasUrl THEN "withUrl" ELSE "noUrl") ELSE readySeen
        /\ getsAtTerminal' =
             IF getsAtTerminal = 0 /\ ReturnsTerminal(o) THEN gets ELSE getsAtTerminal
        /\ pollFailures' = IF Retryable(o) THEN pollFailures + 1 ELSE pollFailures
  /\ UNCHANGED <<cfg, protocolVersion, engVars, posts, createFailures, sockFailures>>
  /\ UNCHANGED <<chanVars, execVars, execHist>>

\* ------------------------------------------------- connect(): opening the channel
\* a rejected open attempt whose socket is left as it was (cleanup without close)
AttemptRejected_leavesSocket(s) ==
  IF wsRetryOn(attempts, TRUE)
  THEN /\ attempts' = attempts + 1
       /\ nSockets' = s + 1
       /\ sockState' = [sockState EXCEPT ![s + 1] = "connecting"]
       /\ tempListeners' = [tempListeners EXCEPT ![s] = FALSE, ![s + 1] = TRUE]
       /\ addCalls' = [addCalls EXCEPT ![s + 1] = 3]
       /\ connectPc' = connectPc
  ELSE /\ connectPc' = "failed"
       /\ sockState' = sockState
       /\ tempListeners' = [tempListeners EXCEPT ![s] = FALSE]
       /\ UNCHANGED <<attempts, nSockets, addCalls>>

\* what follows a rejected open attempt on socket s: the retry engine asks
\* retryOn and either constructs the next socket or rejects connect()
AttemptRejected(s) ==
  IF wsRetryOn(attempts, TRUE)
  THEN /\ attempts' = attempts + 1
       /\ nSockets' = s + 1
       /\ sockState' = [sockState EXCEPT ![s] = "closed", ![s + 1] = "connecting"]
       /\ tempListeners' = [tempListeners EXCEPT ![s] = FALSE, ![s + 1] = TRUE]
       /\ addCalls' = [addCalls EXCEPT ![s + 1] = 3]
       /\ connectPc' = connectPc
  ELSE /\ connectPc' = "failed"
       /\ sockState' = [sockState EXCEPT ![s] = "closed"]
       /\ tempListeners' = [tempListeners EXCEPT ![s] = FALSE]
       /\ UNCHANGED <<attempts, nSockets, addCalls>>

\* an onSocketOpen that resolves without cleanup()
openCleanup_none(s) == tempListeners

\* cleanup() in onSocketOpen: the open, error and close listeners of the
\* attempt are taken off socket s
openCleanup(s) == [tempListeners EXCEPT ![s] = FALSE]

\* openWebSocket.onSocketOpen, then the rest of connectToWebSocket
SockOpen(s) ==
  /\ connectPc = "opening" /\ s = nSockets
  /\ sockState[s] = "connecting" /\ tempListeners[s]
  /\ tempListeners' = openCleanup(s)
  /\ removeCalls' = [removeCalls EXCEPT ![s] = @ + 3]
  /\ sockState' = [sockState EXCEPT ![s] = "open"]
  /\ ws' = s
  /\ wsListeners' = <<ErrListener, CloseListener>>
  /\ sockListeners' = {ErrListener, CloseListener}
  /\ addCalls' = [addCalls EXCEPT ![s] = @ + 2]
  /\ connectPc' = "done"
  /\ UNCHANGED <<cfg, protocolVersion, engVars, posts, gets, attempts, numFailedAttempts>>
  /\ UNCHANGED <<nSockets, attemptAborted, closeCalls, sessionAborted>>
  /\ UNCHANGED <<execVars, connHist, execHist>>

\* openWebSocket.onSocketFail: an error or a close event before open
SockFail(s) ==
  /\ connectPc = "opening" /\ s = nSockets /\ s < MaxAttempts
  /\ sockState[s] = "connecting" /\ tempListeners[s]
  /\ removeCalls' = [removeCalls EXCEPT ![s] = @ + 3]
  /\ closeCalls' = [closeCalls EXCEPT ![s] = @ + 1]
  /\ AttemptRejected(s)
  /\ sockFailures' = sockFailures + 1
  /\ UNCHANGED <<cfg, protocolVersion, engVars, posts, gets, numFailedAttempts, attemptAborted>>
  /\ UNCHANGED <<numStatuses, numNotReady, readySeen, getsAtTerminal,
                 createFailures, pollFailures>>
  /\ UNCHANGED <<chanVars, execVars, execHist>>

\* the AbortSignal.timeout of open attempt s fires: the abort listener that
\* openWebSocket left on the attempt's signal rejects and runs cleanup(true)
TokenTimeout(s) ==
  /\ s \in 1..nSockets /\ s < MaxAttempts
  /\ ~attemptAborted[s]
  /\ attemptAborted' = [attemptAborted EXCEPT ![s] = TRUE]
  /\ removeCalls' = [removeCalls EXCEPT ![s] = @ + 3]
  /\ closeCalls' = [closeCalls EXCEPT ![s] = @ + 1]
  /\ IF connectPc = "opening" /\ s = nSockets /\ sockState[s] = "connecting"
     THEN /\ AttemptRejected(s)
          /\ sockFailures' = sockFailures + 1
     ELSE /\ sockState' = [sockState EXCEPT ![s] = "closed"]
          /\ tempListeners' = [tempListeners EXCEPT ![s] = FALSE]
          /\ UNCHANGED <<connectPc, attempts, nSockets, addCalls, sockFailures>>
  /\ UNCHANGED <<cfg, protocolVersion, engVars, posts, gets, numFailedAttempts>>
  /\ UNCHANGED <<numStatuses, numNotReady, readySeen, getsAtTerminal,
                 createFailures, pollFailures>>
  /\ UNCHANGED <<chanVars, execVars, execHist>>

\* ------------------------------------------------------------- abort dispatch
\* only the first wait of an execution listens to the combined signal
HasSignal_firstRound(e) == waits[e] = 1

\* execution e has a wait listening to its combined signal
HasSignal(e) == waits[e] >= 1

\* sendCancellation without the protocol-version gate
sendCancellation_ungated(e) ==
  IF ws # 0 THEN <<"cancel">> ELSE <<>>

\* sendCancellation of one wait of execution e
sendCancellation(e) ==
  IF SemverGte(protocolVersion, MIN_PROTOCOL_VERSION_FOR_CANCEL) /\ ws # 0
  THEN <<"cancel">> ELSE <<>>

\* what the abort listeners of execution e send: one sendCancellation per
\* waitForMessage call made so far (the listeners are never removed)
AbortSends(e) ==
  IF waits[e] = 2 THEN sendCancellation(e) \o sendCancellation(e)
  ELSE sendCancellation(e)

NumAbortListeners(F) ==
  Cardinality({e \in F : waits[e] >= 1}) + Cardinality({e \in F : waits[e] >= 2})

\* the abort listeners cancelling and cleaning up without rejecting the wait
ExecSignalsFire_noReject(F, removeBase) ==
  /\ execAborted' = [e \in Ops |-> execAborted[e] \/ e \in F]
  /\ sent' = [e \in Ops |-> IF e \in F THEN sent[e] \o AbortSends(e) ELSE sent[e]]
  /\ pc' = pc
  /\ removeCalls' =
       IF ws # 0
       THEN [removeBase EXCEPT ![ws] = @ + NumAbortListeners(F)]
       ELSE removeBase
  /\ rejectCause' = rejectCause
  /\ abortPhase' = [e \in Ops |-> IF e \in F THEN pc[e] ELSE abortPhase[e]]

\* abort listeners that reject the first wait only
ExecSignalsFire_firstWaitOnly(F, removeBase) ==
  /\ execAborted' = [e \in Ops |-> execAborted[e] \/ e \in F]
  /\ sent' = [e \in Ops |-> IF e \in F THEN sent[e] \o AbortSends(e) ELSE sent[e]]
  /\ pc' = [e \in Ops |-> IF e \in F /\ pc[e] = "wait1" THEN "rejected" ELSE pc[e]]
  /\ removeCalls' =
       IF ws # 0
       THEN [removeBase EXCEPT ![ws] = @ + NumAbortListeners(F)]
       ELSE removeBase
  /\ rejectCause' = [e \in Ops |->
       IF e \in F /\ pc[e] = "wait1" THEN "aborted" ELSE rejectCause[e]]
  /\ abortPhase' = [e \in Ops |-> IF e \in F THEN pc[e] ELSE abortPhase[e]]

\* the combined signals of the executions in F fire; removeBase carries the
\* removeEventListener calls the same step makes elsewhere
ExecSignalsFire(F, removeBase) ==
  /\ execAborted' = [e \in Ops |-> execAborted[e] \/ e \in F]
  /\ sent' = [e \in Ops |-> IF e \in F THEN sent[e] \o AbortSends(e) ELSE sent[e]]
  /\ pc' = [e \in Ops |-> IF e \in F /\ Pending(e) THEN "rejected" ELSE pc[e]]
  /\ removeCalls' =
       IF ws # 0
       THEN [removeBase EXCEPT ![ws] = @ + NumAbortListeners(F)]
       ELSE removeBase
  /\ rejectCause' = [e \in Ops |->
       IF e \in F /\ Pending(e) THEN "aborted" ELSE rejectCause[e]]
  /\ abortPhase' = [e \in Ops |-> IF e \in F THEN pc[e] ELSE abortPhase[e]]

\* a caller signal wired to every execution's combined signal
AbortTargets_all(e) == {f \in Ops : HasSignal(f) /\ ~execAborted[f]}

\* the executions whose combined signal listens to the signal the caller
\* passed to execute() number e: that execution alone
AbortTargets(e) == {e}

\* the caller aborts the signal it passed to execute() number e. Once the
\* combined signal of e has fired nothing listens to the caller's signal any
\* more (controller.abort() on an aborted controller does nothing), so the
\* step is taken only before that.
UserAbort(e) ==
  /\ connectPc = "done"
  /\ userSig[e] = "live"
  /\ ~execAborted[e]
  /\ userSig' = [userSig EXCEPT ![e] = "aborted"]
  /\ ExecSignalsFire(AbortTargets(e), removeCalls)
  /\ sockListeners' =
       sockListeners \ {MsgListener(f, r) : f \in AbortTargets(e), r \in {1, 2}}
  /\ UNCHANGED <<connVars, connHist>>
  /\ UNCHANGED <<nSockets, sockState, attemptAborted, tempListeners, addCalls, closeCalls>>
  /\ UNCHANGED <<ws, sessionAborted, wsListeners>>
  /\ UNCHANGED <<waits, resolvedWith, recvSucc, recvResult, reclosed>>

\* who fired the combined signal of execution e
AbortBy(e) ==
  IF userSig[e] = "aborted" THEN "user"
  ELSE IF execAborted[e] THEN "session" ELSE "none"

\* ------------------------------------------------------------------- close()
\* a close() that keeps the channel reference
wsAfterClose_kept == ws

\* the channel reference close() leaves: this.ws = null
wsAfterClose == 0

\* a close() that deregisters nothing
closeRemovals_none == <<>>

\* the listeners close() deregisters from the channel: the tracked collection
closeRemovals == wsListeners

\* Connection.close: abort the session signal (its listeners run first, in the
\* same call), deregister the tracked listeners, close and forget the channel
CloseBody ==
  LET fresh == ~sessionAborted
      S == IF fresh THEN {s \in 1..nSockets : ~attemptAborted[s]} ELSE {}
      F == IF fresh THEN {e \in Ops : HasSignal(e) /\ ~execAborted[e]} ELSE {}
      base == [s \in SockIds |->
                 removeCalls[s] + (IF s \in S THEN 3 ELSE 0)
                                + (IF s = ws THEN Len(closeRemovals) ELSE 0)]
  IN /\ sessionAborted' = TRUE
     /\ attemptAborted' = [s \in SockIds |-> attemptAborted[s] \/ s \in S]
     /\ ExecSignalsFire(F, base)
     /\ closeCalls' = [s \in SockIds |->
          closeCalls[s] + (IF s \in S THEN 1 ELSE 0) + (IF s = ws THEN 1 ELSE 0)]
     /\ sockState' = [s \in SockIds |->
          IF s \in S \/ s = ws THEN "closed" ELSE sockState[s]]
     /\ ws' = wsAfterClose
     /\ wsListeners' = <<>>
     /\ sockListeners' =
          IF ws = 0 THEN sockListeners
          ELSE (sockListeners \ {MsgListener(e, r) : e \in F, r \in {1, 2}})
                 \ {closeRemovals[i] : i \in 1..Len(closeRemovals)}
     /\ UNCHANGED <<connVars, connHist>>
     /\ UNCHANGED <<nSockets, tempListeners, addCalls>>
     /\ UNCHANGED <<userSig, waits, resolvedWith, recvSucc, recvResult>>

\* the caller calls close() on the connection connect() returned
Close ==
  /\ connectPc = "done"
  /\ CloseBody
  /\ UNCHANGED reclosed

\* close() called once more on a connection that close() has already run on
CloseAgain ==
  /\ connectPc = "done"
  /\ sessionAborted
  /\ CloseBody
  /\ reclosed' = TRUE

\* a finalizer that only aborts the session signal
disposeBody_abortOnly ==
  /\ sessionAborted' = TRUE
  /\ UNCHANGED <<connVars, sockVars, execVars, connHist>>
  /\ UNCHANGED <<ws, wsListeners, sockListeners>>
  /\ UNCHANGED <<recvSucc, recvResult, rejectCause, abortPhase>>

\* the body of Connection[Symbol.dispose]: this.close()
disposeBody == CloseBody

\* the scope that holds the connection connect() returned ends
Dispose ==
  /\ connectPc = "done"
  /\ disposeBody
  /\ UNCHANGED reclosed

\* close() run on the instance while connectToWebSocket is still opening the
\* channel (this.ws is null, so close() only aborts the session signal): the
\* abort listeners openWebSocket left on the attempts' combined signals run,
\* rejecting the pending attempt and closing its socket. connect() hands the
\* instance out only when it resolves; before that the instance is the
\* receiver of the calls to the injected fetch.
CloseWhileOpening ==
  /\ connectPc = "opening" /\ ~sessionAborted
  /\ sessionAborted' = TRUE
  /\ LET S == {s \in 1..nSockets : ~attemptAborted[s]} IN
       /\ attemptAborted' = [s \in SockIds |-> attemptAborted[s] \/ s \in S]
       /\ removeCalls' = [s \in SockIds |->
            removeCalls[s] + (IF s \in S THEN 3 ELSE 0)]
       /\ closeCalls' = [s \in SockIds |->
            closeCalls[s] + (IF s \in S THEN 1 ELSE 0)]
       /\ sockState' = [s \in SockIds |->
            IF s \in S THEN "closed" ELSE sockState[s]]
  /\ tempListeners' = [s \in SockIds |-> FALSE]
  /\ UNCHANGED <<connVars, connHist, execVars, execHist>>
  /\ UNCHANGED <<nSockets, addCalls, ws, wsListeners, sockListeners>>

\* the retry engine after the session signal rejected the open attempt:
\* retryOn is given the error and the attempt index and looks at nothing
\* else; a retried openWebSocket throws at signal.throwIfAborted(), before
\* a socket is constructed
RetryAfterAbort ==
  /\ connectPc = "opening" /\ sessionAborted
  /\ IF wsRetryOn(attempts, TRUE)
     THEN attempts' = attempts + 1 /\ connectPc' = connectPc
     ELSE attempts' = attempts /\ connectPc' = "failed"
  /\ UNCHANGED <<cfg, protocolVersion, engVars, posts, gets, numFailedAttempts>>
  /\ UNCHANGED <<sockVars, chanVars, execVars, connHist, execHist>>

\* an error event on the open channel: onWsError
WsErrorEvent ==
  /\ connectPc = "done" /\ ws # 0
  /\ sockState[ws] = "open"
  /\ ErrListener \in sockListeners
  /\ CloseBody
  /\ UNCHANGED reclosed

\* a close event on the channel (remote close, or the end of a local close): onWsClose
WsCloseEvent ==
  /\ connectPc = "done" /\ ws # 0
  /\ CloseListener \in sockListeners
  /\ CloseBody
  /\ UNCHANGED reclosed

\* ----------------------------------------------------------------- execute()
\* the constructor has returned a Connection object
Constructed == optionsParse /\ connectPc # "start"

\* an open check that never fails
NotOpen_never == FALSE

\* the open check of execute(): !this.ws
NotOpen == ws = 0

\* Connection.execute up to its first await: the open check, the combined
\* signal, the first waitForMessage and the execute_sql send
Execute(e, sg) ==
  /\ Constructed
  /\ pc[e] = "idle"
  /\ \A f \in Ops : f < e => pc[f] # "idle"
  /\ IF NotOpen
     THEN /\ pc' = [pc EXCEPT ![e] = "rejected"]
          /\ rejectCause' = [rejectCause EXCEPT ![e] = "notOpen"]
          /\ UNCHANGED <<userSig, execAborted, waits, sent, abortPhase>>
          /\ UNCHANGED <<wsListeners, sockListeners, addCalls>>
     ELSE LET aborted == sessionAborted \/ sg = "aborted"
          IN /\ userSig' = [userSig EXCEPT ![e] = sg]
             /\ execAborted' = [execAborted EXCEPT ![e] = aborted]
             /\ waits' = [waits EXCEPT ![e] = 1]
             /\ IF aborted
                THEN /\ sent' = [sent EXCEPT ![e] = sendCancellation(e) \o <<"execute_sql">>]
                     /\ pc' = [pc EXCEPT ![e] = "rejected"]
                     /\ rejectCause' = [rejectCause EXCEPT ![e] = "aborted"]
                     /\ abortPhase' = [abortPhase EXCEPT ![e] = "call"]
                     /\ UNCHANGED <<wsListeners, sockListeners, addCalls>>
                ELSE /\ sent' = [sent EXCEPT ![e] = <<"execute_sql">>]
                     /\ pc' = [pc EXCEPT ![e] = "wait1"]
                     /\ wsListeners' = Append(wsListeners, MsgListener(e, 1))
                     /\ sockListeners' = sockListeners \cup {MsgListener(e, 1)}
                     /\ addCalls' = [addCalls EXCEPT ![ws] = @ + 1]
                     /\ UNCHANGED <<rejectCause, abortPhase>>
  /\ UNCHANGED <<connVars, connHist>>
  /\ UNCHANGED <<nSockets, sockState, attemptAborted, tempListeners, removeCalls, closeCalls>>
  /\ UNCHANGED <<ws, sessionAborted>>
  /\ UNCHANGED <<resolvedWith, recvSucc, recvResult, reclosed>>

\* execute() on a connection whose channel reference is not set: while
\* connect() is still running or after it failed, after close(), after a
\* channel failure. (Calls on a ready connection are the subject of SpecExec.)
ExecuteUnopened(sg) ==
  /\ ws = 0
  /\ Execute(1, sg)

\* decompressPayload and decodeResults succeed on the payload of m
Decodes(m) == m.fmt = "arrow"

\* the channel delivers a state_updated:succeeded / an execution_result:succeeded
\* event carrying the id of execution e (what was received, whatever the
\* listeners make of it)
AckFor(e, m) ==
  m.wellFormed /\ m.kind = "state_updated" /\ m.state = "succeeded" /\ m.id = e

ResultFor(e, m) ==
  m.wellFormed /\ m.kind = "execution_result" /\ m.state = "succeeded" /\ m.id = e

\* what each registered message listener does with m: the outcome of
\* handleMessage for a pending wait, "none" for an execution without one
DeliverOutcome(m) ==
  [e \in Ops |->
     IF MsgListener(e, RoundOf(pc[e])) \in sockListeners /\ Pending(e)
     THEN handleMessage(e, RoundOf(pc[e]), m) ELSE "none"]

\* a settlement that leaves the message listener on the socket
settleCleanup_none(S) == {}

\* the message listeners the waits of the executions in S deregister when
\* handleMessage settles them: cleanup() of each wait
settleCleanup(S) == {MsgListener(e, RoundOf(pc[e])) : e \in S}

\* a message event on the socket connect() opened: every registered
\* handleMessage runs on it, then the execute() whose first wait resolved goes
\* on to its second round-trip and the one whose second wait resolved decodes
\* and returns. After close() the socket has no message listener left, so a
\* frame that still arrives reaches no handleMessage.
Deliver(m) ==
  /\ connectPc = "done"
  /\ IF m.id = ForeignId THEN TRUE ELSE sent[m.id] # <<>>
  /\ IF ws = 0 THEN sockListeners = {} ELSE sockState[ws] = "open"
  /\ \E out \in {DeliverOutcome(m)} :
     \E settled \in {{e \in Ops : out[e] \in {"reject", "resolve"}}} :
       IF settled = {} /\ \A e \in Ops : ~AckFor(e, m) /\ ~ResultFor(e, m)
       THEN UNCHANGED vars
       ELSE \E next \in {{e \in Ops : out[e] = "resolve" /\ pc[e] = "wait1"}} :
            \E done \in {{e \in Ops : out[e] = "resolve" /\ pc[e] = "wait2"}} :
        /\ pc' = [e \in Ops |->
             IF out[e] = "reject" THEN "rejected"
             ELSE IF e \in next THEN "wait2"
             ELSE IF e \in done THEN (IF Decodes(m) THEN "resolved" ELSE "rejected")
             ELSE pc[e]]
        /\ sent' = [e \in Ops |->
             IF e \in next THEN Append(sent[e], "retrieve_results") ELSE sent[e]]
        /\ waits' = [e \in Ops |-> IF e \in next THEN 2 ELSE waits[e]]
        /\ resolvedWith' = [e \in Ops |->
             IF e \in done /\ Decodes(m) THEN m.id ELSE resolvedWith[e]]
        /\ wsListeners' =
             wsListeners \o [i \in 1..Cardinality(next) |->
                               MsgListener(SetToSeq(next)[i], 2)]
        /\ sockListeners' =
             (sockListeners \ settleCleanup(settled))
               \cup {MsgListener(e, 2) : e \in next}
        /\ addCalls' = [addCalls EXCEPT ![ws] = @ + Cardinality(next)]
        /\ removeCalls' = [removeCalls EXCEPT ![ws] = @ + Cardinality(settled)]
        /\ rejectCause' = [e \in Ops |->
             IF out[e] = "reject" THEN (IF m.id = e THEN "error" ELSE "foreignError")
             ELSE IF e \in done /\ ~Decodes(m) THEN "decode"
             ELSE rejectCause[e]]
        /\ recvSucc' = [e \in Ops |->
             recvSucc[e] \/ (AckFor(e, m) /\ pc[e] = "wait1")]
        /\ recvResult' = [e \in Ops |->
             recvResult[e] \/ (ResultFor(e, m) /\ pc[e] = "wait2")]
        /\ UNCHANGED <<connVars, connHist>>
        /\ UNCHANGED <<nSockets, sockState, attemptAborted, tempListeners, closeCalls>>
        /\ UNCHANGED <<ws, sessionAborted>>
        /\ UNCHANGED <<userSig, execAborted, abortPhase, reclosed>>

\* ------------------------------------------------------------------ lifecycle
\* the lifecycle state of the connection, numbered in its forward order:
\* 0 unestablished, 1 provisioning, 2 channel-connecting, 3 ready, 4 closed
\* (connect() rejected, or close() has run)
Phase ==
  IF connectPc = "start" THEN 0
  ELSE IF connectPc \in {"creating", "polling"} THEN 1
  ELSE IF connectPc = "opening" THEN 2
  ELSE IF connectPc = "done" /\ ~sessionAborted THEN 3
  ELSE 4

\* ------------------------------------------------ asyncOperationWithRetry
\* one run of the retry engine with an arbitrary operation (each attempt
\* throws or returns), an arbitrary retryOn callback (returns true, returns
\* false or throws) and backoffRetry as retryDelay. The error thrown and the
\* value returned by attempt k are both written k + 1, so that the attempt an
\* outcome came from can be read off it; as with every operation this
\* repository passes in (fetch, openWebSocket), errors and results are never
\* null.

\* a jitter over the whole delay
jitter_full(delay, r) == (delay * r) \div JitterSteps

\* jitter(delay) with Math.random() = r / JitterSteps
jitter(delay, r) == delay \div 2 + ((delay \div 2) * r) \div JitterSteps

\* Math.random() is in [0, 1)
Randoms == 0..(JitterSteps - 1)

backoffRetry(a, r) ==
  IF a <= 1 THEN jitter(1000, r)
  ELSE IF a = 2 THEN jitter(2000, r)
  ELSE jitter(5000, r)

\* performAttempt number k: [error, null] when the operation threw,
\* [null, result] when it returned
performAttempt(threw, k) ==
  IF threw THEN [error |-> k + 1, result |-> 0]
  ELSE [error |-> 0, result |-> k + 1]

\* an attempt index counted from one
retryOnIndex_oneBased == engAttempts + 1

\* the attempt index the engine passes to retryOn: its variable attempts
retryOnIndex == engAttempts

\* a throwing retryOn taken as "retry"
onRetryOnThrow_retries ==
  [pc |-> "delaying", settled |-> engSettled, delay |-> backoffRetry(engAttempts, 0),
   retried |-> 1]

\* retryOn throws or rejects inside the engine's async function: the while
\* condition throws, so the promise the engine returned rejects with it
onRetryOnThrow ==
  [pc |-> "rejected", settled |-> [error |-> -1, result |-> 0], delay |-> engDelay,
   retried |-> 0]

\* asyncOperationWithRetry is called: the first performAttempt starts
EngStart ==
  /\ engPc = "idle" /\ connectPc = "start"
  /\ engPc' = "attempting"
  /\ engPerformed' = 1
  /\ UNCHANGED <<engAttempts, engLast, engSettled, engDelay, engTrue, engArgs, engThrew>>
  /\ UNCHANGED <<cfg, protocolVersion, connectPc, posts, gets, attempts, numFailedAttempts>>
  /\ UNCHANGED <<sockVars, chanVars, execVars, connHist, execHist>>

\* the attempt in flight settles; the engine then calls retryOn
EngAttemptSettles(threw) ==
  /\ engPc = "attempting"
  /\ engLast' = performAttempt(threw, engPerformed - 1)
  /\ engArgs' = [attempts |-> retryOnIndex,
                 error |-> engLast'.error, result |-> engLast'.result]
  /\ engPc' = "deciding"
  /\ UNCHANGED <<engAttempts, engSettled, engDelay, engPerformed, engTrue, engThrew>>
  /\ UNCHANGED <<cfg, protocolVersion, connectPc, posts, gets, attempts, numFailedAttempts>>
  /\ UNCHANGED <<sockVars, chanVars, execVars, connHist, execHist>>

\* retryOn returns true: the engine takes retryDelay(attempts) and waits
EngRetry(r) ==
  /\ engPc = "deciding" /\ engAttempts < MaxAttempts
  /\ engTrue' = engTrue + 1
  /\ engDelay' = backoffRetry(engAttempts, r)
  /\ engPc' = "delaying"
  /\ UNCHANGED <<engAttempts, engLast, engSettled, engPerformed, engArgs, engThrew>>
  /\ UNCHANGED <<cfg, protocolVersion, connectPc, posts, gets, attempts, numFailedAttempts>>
  /\ UNCHANGED <<sockVars, chanVars, execVars, connHist, execHist>>

\* the delay has elapsed: attempts += 1 and the next performAttempt starts
EngDelayElapses ==
  /\ engPc = "delaying"
  /\ engAttempts' = engAttempts + 1
  /\ engPerformed' = engPerformed + 1
  /\ engPc' = "attempting"
  /\ UNCHANGED <<engLast, engSettled, engDelay, engTrue, engArgs, engThrew>>
  /\ UNCHANGED <<cfg, protocolVersion, connectPc, posts, gets, attempts, numFailedAttempts>>
  /\ UNCHANGED <<sockVars, chanVars, execVars, connHist, execHist>>

\* retryOn returns false: reject with the error if there is one, else
\* resolve with the result
EngSettle ==
  /\ engPc = "deciding"
  /\ engPc' = IF engLast.error # 0 THEN "rejected" ELSE "resolved"
  /\ engSettled' = IF engLast.error # 0
                   THEN [error |-> engLast.error, result |-> 0]
                   ELSE [error |-> 0, result |-> engLast.result]
  /\ UNCHANGED <<engAttempts, engLast, engDelay, engPerformed, engTrue, engArgs, engThrew>>
  /\ UNCHANGED <<cfg, protocolVersion, connectPc, posts, gets, attempts, numFailedAttempts>>
  /\ UNCHANGED <<sockVars, chanVars, execVars, connHist, execHist>>

\* retryOn throws or rejects
EngRetryOnThrows ==
  /\ engPc = "deciding" /\ engAttempts < MaxAttempts
  /\ engThrew' = TRUE
  /\ engPc' = onRetryOnThrow.pc
  /\ engSettled' = onRetryOnThrow.settled
  /\ engDelay' = onRetryOnThrow.delay
  /\ engTrue' = engTrue + onRetryOnThrow.retried
  /\ UNCHANGED <<engAttempts, engLast, engPerformed, engArgs>>
  /\ UNCHANGED <<cfg, protocolVersion, connectPc, posts, gets, attempts, numFailedAttempts>>
  /\ UNCHANGED <<sockVars, chanVars, execVars, connHist, execHist>>

\* ------------------------------------------------------------ specifications
Next ==
  \/ Connect
  \/ \E o \in HttpOutcomes : CreateResponse(o)
  \/ \E o \in HttpOutcomes : PollResponse(o)
  \/ \E s \in SockIds : SockOpen(s)
  \/ \E s \in SockIds : SockFail(s)
  \/ \E s \in SockIds : TokenTimeout(s)
  \/ WsErrorEvent
  \/ WsCloseEvent
  \/ Close
  \/ \E sg \in CallerSignals : ExecuteUnopened(sg)

Spec == Init /\ [][Next]_vars

NextExec ==
  \/ \E e \in Ops, sg \in CallerSignals : Execute(e, sg)
  \/ \E m \in Messages : Deliver(m)
  \/ \E e \in Ops : UserAbort(e)
  \/ \E s \in SockIds : TokenTimeout(s)
  \/ WsErrorEvent
  \/ WsCloseEvent
  \/ Close

SpecExec == InitReady /\ [][NextExec]_vars

\* a ready connection whose caller never calls close(): the channel is torn
\* down by its own error and close events only
NextChan ==
  \/ \E e \in Ops, sg \in CallerSignals : Execute(e, sg)
  \/ \E m \in Messages : Deliver(m)
  \/ \E e \in Ops : UserAbort(e)
  \/ \E s \in SockIds : TokenTimeout(s)
  \/ WsErrorEvent
  \/ WsCloseEvent

SpecChan == InitReady /\ [][NextChan]_vars

\* a ready connection whose caller may call close() again after it was closed
NextReclose ==
  \/ \E e \in Ops, sg \in CallerSignals : Execute(e, sg)
  \/ \E m \in Messages : Deliver(m)
  \/ \E e \in Ops : UserAbort(e)
  \/ \E s \in SockIds : TokenTimeout(s)
  \/ WsErrorEvent
  \/ WsCloseEvent
  \/ Close
  \/ CloseAgain

SpecReclose == InitReady /\ [][NextReclose]_vars

\* ================================================================= properties
\* the protocol version is at least 1.1.0, read off its components
CancelCapable == protocolVersion[1] > 1 \/ (protocolVersion[1] = 1 /\ protocolVersion[2] >= 1)

\* ---------------------------------------------------------------------- C1
\* C1: with two execute() calls in flight, whatever the interleaving of their
\* state_updated and execution_result messages, a call that resolves resolved
\* with the execution_result carrying its own execution id, after that result
\* was delivered to it; it never resolves with a message carrying another id.
C1_ResolvesWithOwnResult ==
  \A e \in Ops :
    pc[e] = "resolved" => resolvedWith[e] = e /\ recvResult[e]

\* both calls were in flight and the later one got its result first
C1_Witness ==
  /\ pc[1] = "wait2" /\ recvSucc[1]
  /\ pc[2] = "resolved" /\ resolvedWith[2] = 2

\* ---------------------------------------------------------------------- C2
\* C2: when an error event carrying the id of execution a is handled while a
\* and another execution b are both pending, only a rejects: b stays in the
\* round-trip it is in and the channel is neither closed nor forgotten.
C2_ErrorRejectsOnlyItsOwn ==
  [][\A a \in Ops, b \in Ops :
       (a # b /\ Pending(a) /\ Pending(b)
          /\ rejectCause[a] # "error" /\ rejectCause'[a] = "error")
       => (pc'[b] = pc[b] /\ ws' = ws /\ closeCalls' = closeCalls)]_vars

\* ---------------------------------------------------------------------- C3
\* C3: when the caller's signal aborts while execute() awaits its first
\* round-trip, the call is rejected as aborted; below protocol 1.1.0 nothing
\* but execute_sql was ever sent for it, from 1.1.0 on exactly one cancel
\* follows execute_sql; no retrieve_results is sent, also when the
\* acknowledgement arrives later; the abort step leaves the channel open.
C3_AbortedInFirstRound(e) == userSig[e] = "aborted" /\ abortPhase[e] = "wait1"

C3_AbortFirstRoundTrip ==
  /\ [](\A e \in Ops : C3_AbortedInFirstRound(e) =>
          /\ pc[e] = "rejected" /\ rejectCause[e] = "aborted"
          /\ sent[e] = IF CancelCapable THEN <<"execute_sql", "cancel">>
                                      ELSE <<"execute_sql">>)
  /\ [][\A e \in Ops :
          (userSig[e] = "live" /\ userSig'[e] = "aborted")
          => (ws' = ws /\ sockState' = sockState /\ closeCalls' = closeCalls)]_vars

\* aborted in the first round-trip under 1.0.0, the channel still open
C3_Witness ==
  \E e \in Ops :
    /\ C3_AbortedInFirstRound(e) /\ ~CancelCapable
    /\ pc[e] = "rejected" /\ sent[e] = <<"execute_sql">>
    /\ ws # 0 /\ sockState[ws] = "open"

\* ---------------------------------------------------------------------- C4
\* C4: for an execute() that has resolved, the outbound messages carrying its
\* execution id are exactly execute_sql then retrieve_results; retrieve_results
\* was sent only after state_updated:succeeded with that id was received, and
\* the call resolved only after execution_result with that id was received.
C4_ExactlyTwoMessages ==
  \A e \in Ops :
    /\ pc[e] = "resolved" =>
          sent[e] = <<"execute_sql", "retrieve_results">> /\ recvResult[e]
    /\ Count(sent[e], "retrieve_results") >= 1 => recvSucc[e]

\* ---------------------------------------------------------------------- C5
\* C5: when the create call returns a session and the polls return k-1
\* not-ready statuses and then READY, with no transient failure, connect()
\* has issued 1 POST and k GETs, one HTTP call per status returned; no GET is
\* issued after the first terminal status, and a socket is constructed only
\* after READY with a channel address was observed.
C5_PollsUntilReady ==
  /\ getsAtTerminal # 0 => gets = getsAtTerminal
  /\ nSockets >= 1 => readySeen = "withUrl"
  /\ (createFailures = 0 /\ pollFailures = 0 /\ readySeen # "no") =>
        /\ posts = 1
        /\ gets = numNotReady + 1
        /\ posts + gets = numStatuses

\* connect() returned after three not-ready polls and READY
C5_Witness ==
  /\ connectPc = "done" /\ createFailures = 0 /\ pollFailures = 0
  /\ numNotReady = 3 /\ gets = 4 /\ posts = 1 /\ numStatuses = 5

\* ---------------------------------------------------------------------- C6
\* C6: every poll that returns a well-formed session with a not-ready status
\* leaves connect() pending in the polling phase and is followed by one more
\* GET, however many such polls came before: polling has no attempt cap.
C6_PollingHasNoCap ==
  [][numNotReady' = numNotReady + 1 =>
       /\ connectPc = "polling" /\ connectPc' = "polling"
       /\ gets' = gets + 1
       /\ nSockets' = 0]_vars

\* more not-ready polls than the resiliency budget, and still polling
C6_Witness ==
  /\ connectPc = "polling" /\ pollFailures = 0
  /\ numNotReady = 4 /\ gets = 5

\* ---------------------------------------------------------------------- C7
\* C7: after k transient failures of the create POST (502, 503 or a timeout)
\* connect() is still trying, with k+1 POSTs issued, as long as k <= 3, and a
\* session returned then takes it to polling; the 4th failure rejects it with
\* exactly 4 POSTs and no GET.
C7_CreateRetryBudget ==
  /\ [](/\ connectPc = "creating" => createFailures <= 3 /\ posts = createFailures + 1
        /\ createFailures >= 4 => connectPc = "failed" /\ posts = 4 /\ gets = 0
        /\ gets >= 1 => createFailures <= 3 /\ posts = createFailures + 1)
  /\ [][(connectPc = "creating" /\ numStatuses' = numStatuses + 1) =>
          (connectPc' = "polling" /\ gets' = 1)]_vars

\* the create call recovered after exactly three transient failures
C7_Witness ==
  /\ createFailures = 3 /\ posts = 4
  /\ connectPc = "polling" /\ gets = 1

\* ---------------------------------------------------------------------- C8
\* C8: in the polling phase each of the first 3 transient failures (502, 503
\* or a timeout) is followed by another GET, and READY with a channel address
\* then takes connect() on to the channel; the 4th transient failure rejects
\* connect() without another GET.
C8_PollRetryBudget ==
  /\ [](/\ pollFailures <= 4
        /\ pollFailures = 4 => connectPc = "failed" /\ nSockets = 0
        /\ readySeen = "withUrl" => nSockets >= 1 /\ pollFailures <= 3)
  /\ [][pollFailures' = pollFailures + 1 =>
          IF pollFailures < 3
          THEN connectPc' = "polling" /\ gets' = gets + 1
          ELSE connectPc' = "failed" /\ gets' = gets]_vars

\* connect() returned although three polls failed transiently
C8_Witness ==
  /\ pollFailures = 3 /\ connectPc = "done"
  /\ readySeen = "withUrl" /\ ws # 0

\* ---------------------------------------------------------------------- C9
\* C9: after k failed channel-open attempts (error or close before open, or
\* the attempt's timeout) connect() is still opening, on socket k+1, as long
\* as k <= 3, and that socket opening makes the connection ready; the 4th
\* failure rejects connect() with exactly 4 sockets constructed.
C9_ChannelRetryBudget ==
  /\ [](/\ sockFailures <= 4
        /\ connectPc = "opening" => sockFailures <= 3 /\ nSockets = sockFailures + 1
        /\ connectPc = "done" => sockFailures <= 3 /\ nSockets = sockFailures + 1
        /\ sockFailures = 4 => connectPc = "failed" /\ nSockets = 4 /\ ws = 0)
  /\ [][\A s \in SockIds :
          (sockState[s] = "connecting" /\ sockState'[s] = "open") =>
          (connectPc' = "done" /\ ws' = s)]_vars

\* four attempts failed: connect() rejected, four sockets were constructed
C9_Witness ==
  /\ sockFailures = 4 /\ connectPc = "failed" /\ nSockets = 4

\* --------------------------------------------------------------------- C10
\* C10: an error or close event on the channel of a ready connection rejects
\* every execute() pending in either round-trip, closes the channel and
\* forgets it; from then on nothing is pending, the channel is never set
\* again, and every later execute() is rejected at once without sending.
C10_ChannelFailureIsFatal ==
  /\ [](ws = 0 => \A e \in Ops : ~Pending(e))
  /\ [][(ws # 0 /\ ws' = 0) =>
          /\ \A e \in Ops : Pending(e) =>
                pc'[e] = "rejected" /\ rejectCause'[e] = "aborted"
          /\ closeCalls'[ws] >= closeCalls[ws] + 1
          /\ sockState'[ws] = "closed"]_vars
  /\ [][ws = 0 =>
          /\ ws' = 0
          /\ \A e \in Ops : (pc[e] = "idle" /\ pc'[e] # "idle") =>
                (pc'[e] = "rejected" /\ rejectCause'[e] = "notOpen"
                   /\ sent'[e] = <<>> /\ sockListeners' = sockListeners)]_vars

\* a channel event rejected one call in each round-trip
C10_Witness ==
  /\ ws = 0 /\ sockState[1] = "closed"
  /\ \E a \in Ops, b \in Ops :
       /\ pc[a] = "rejected" /\ abortPhase[a] = "wait1" /\ AbortBy(a) = "session"
       /\ pc[b] = "rejected" /\ abortPhase[b] = "wait2" /\ AbortBy(b) = "session"

\* --------------------------------------------------------------------- C11
\* C11: close() with execute() calls pending in either round-trip rejects
\* every one of them; a rejected call stays rejected and gets no result,
\* whatever message is delivered afterwards.
C11_CloseRejectsPending ==
  /\ [][\A e \in Ops :
          (ws # 0 /\ ws' = 0 /\ pc[e] \in {"wait1", "wait2"}) =>
          pc'[e] = "rejected"]_vars
  /\ [][\A e \in Ops :
          pc[e] = "rejected" =>
          (pc'[e] = "rejected" /\ resolvedWith'[e] = resolvedWith[e])]_vars
  /\ [](sessionAborted => \A e \in Ops : pc[e] \notin {"wait1", "wait2"})

\* closed while one call awaited its result and another its acknowledgement
C11_Witness ==
  /\ sessionAborted /\ ws = 0
  /\ \E a \in Ops, b \in Ops :
       /\ pc[a] = "rejected" /\ abortPhase[a] = "wait2" /\ recvSucc[a]
       /\ ~recvResult[a] /\ resolvedWith[a] = -1
       /\ pc[b] = "rejected" /\ abortPhase[b] = "wait1" /\ ~recvSucc[b]
       /\ userSig[a] = "live" /\ userSig[b] = "live"

\* --------------------------------------------------------------------- C12
\* C12: an execute() called while the channel reference is not set (connect()
\* not completed, close() called, or the channel failed) is rejected at once
\* as not open: it sends nothing, registers no message listener and no abort
\* listener, and makes no call on any socket.
C12_NotOpenFailsFast ==
  [][\A e \in Ops :
       (ws = 0 /\ pc[e] = "idle" /\ pc'[e] # "idle") =>
       /\ pc'[e] = "rejected" /\ rejectCause'[e] = "notOpen"
       /\ sent'[e] = <<>> /\ waits'[e] = 0
       /\ wsListeners' = wsListeners /\ sockListeners' = sockListeners
       /\ addCalls' = addCalls /\ removeCalls' = removeCalls]_vars

\* called while the first socket was still connecting
C12_Witness ==
  /\ connectPc = "opening" /\ sockState[1] = "connecting" /\ ws = 0
  /\ pc[1] = "rejected" /\ rejectCause[1] = "notOpen" /\ sent[1] = <<>>

\* --------------------------------------------------------------------- C13
\* C13: once close() has run, whatever execute() calls came before (resolved,
\* rejected by an error event, aborted, or pending at close), the socket that
\* was the channel has seen at least as many removeEventListener calls as
\* addEventListener calls, and none of its listeners is still registered.
C13_ListenersReleased ==
  (connectPc = "done" /\ sessionAborted) =>
    /\ removeCalls[nSockets] >= addCalls[nSockets]
    /\ sockListeners = {}
    /\ ~tempListeners[nSockets]

\* closed after one call resolved, with another pending in its second round
C13_Witness ==
  /\ connectPc = "done" /\ sessionAborted /\ ws = 0
  /\ addCalls[1] = 9
  /\ \E a \in Ops, b \in Ops :
       /\ pc[a] = "resolved"
       /\ pc[b] = "rejected" /\ abortPhase[b] = "wait2"

\* --------------------------------------------------------------------- C14
\* C14: close() is idempotent: a close() on a connection that was already
\* closed, by the caller or by the channel's error or close listener, changes
\* nothing and makes no call on any socket (no send, no removeEventListener,
\* no close, no addEventListener); nor does any other step on a closed
\* connection touch the sockets.
C14_CloseIsIdempotent ==
  /\ [][reclosed' # reclosed =>
          UNCHANGED <<connVars, sockVars, chanVars, execVars, connHist,
                      recvSucc, recvResult, rejectCause, abortPhase>>]_vars
  /\ [][sessionAborted =>
          UNCHANGED <<sockVars, chanVars, sent, execAborted>>]_vars

\* close() was called again after a close that had rejected a pending call
C14_Witness ==
  /\ reclosed /\ ws = 0 /\ closeCalls[1] >= 1
  /\ \E e \in Ops : pc[e] = "rejected" /\ AbortBy(e) = "session"

\* --------------------------------------------------------------------- C15
\* C15: with a configuration error (no API key, or an option outside its
\* enumeration) connect() rejects before any network activity: no POST, no
\* GET, no socket constructed, no call on a socket, no channel.
C15_ConfigErrorBeforeNetwork ==
  cfg # "ok" =>
    /\ connectPc \in {"start", "failed"}
    /\ posts = 0 /\ gets = 0 /\ numStatuses = 0
    /\ nSockets = 0 /\ ws = 0
    /\ \A s \in SockIds : sockState[s] = "unbuilt" /\ addCalls[s] = 0

\* connect() rejected on an option outside its enumeration
C15_Witness ==
  /\ cfg = "badOption" /\ connectPc = "failed"
  /\ posts = 0 /\ nSockets = 0

\* --------------------------------------------------------------------- C16
\* C16: when a poll returns a terminal status other than READY, or READY
\* without a channel address, polling stops at that response (no further GET),
\* connect() rejects and no socket is constructed.
C16_BadTerminal == getsAtTerminal # 0 /\ readySeen # "withUrl"

C16_TerminalNotReadyRejects ==
  C16_BadTerminal =>
    /\ connectPc = "failed"
    /\ gets = getsAtTerminal
    /\ nSockets = 0 /\ ws = 0
    /\ \A s \in SockIds : sockState[s] = "unbuilt"

\* the third poll returned a terminal status that is not READY
C16_Witness ==
  /\ getsAtTerminal = 3 /\ readySeen = "no" /\ numNotReady = 2
  /\ connectPc = "failed" /\ gets = 3 /\ nSockets = 0

\* --------------------------------------------------------------------- C17
\* C17: a create response that is neither a session nor a transient failure
\* (a failure status such as 401, a body that fails the schema, an error that
\* is not a timeout) rejects connect() without another POST and without a
\* GET; when it answers the first POST, connect() has made exactly one HTTP
\* call.
C17_CreateFailsWithoutRetry ==
  /\ [][(connectPc = "creating" /\ pc' = pc
           /\ createFailures' = createFailures /\ numStatuses' = numStatuses) =>
          (connectPc' = "failed" /\ posts' = posts /\ gets' = 0 /\ nSockets' = 0)]_vars
  /\ []((cfg = "ok" /\ connectPc = "failed" /\ createFailures = 0 /\ numStatuses = 0)
          => (posts = 1 /\ gets = 0))

\* connect() rejected on the answer to its first POST
C17_Witness ==
  /\ cfg = "ok" /\ connectPc = "failed"
  /\ createFailures = 0 /\ numStatuses = 0
  /\ posts = 1 /\ gets = 0

\* --------------------------------------------------------------------- C18
\* C18: a poll response that is neither a session nor a transient failure (a
\* failure status such as 500, a payload that fails the schema) rejects
\* connect() without another GET; after n not-ready polls and no transient
\* failure that makes n + 2 HTTP calls: the create, n polls, the failing poll.
C18_PollFailsWithoutRetry ==
  /\ [][(connectPc = "polling" /\ pc' = pc
           /\ pollFailures' = pollFailures /\ numStatuses' = numStatuses) =>
          (connectPc' = "failed" /\ gets' = gets /\ posts' = posts /\ nSockets' = 0)]_vars
  /\ []((connectPc = "failed" /\ gets >= 1 /\ getsAtTerminal = 0
           /\ createFailures = 0 /\ pollFailures = 0)
          => (posts + gets = numNotReady + 2 /\ numStatuses = numNotReady + 1))

\* the poll after three not-ready polls failed for good
C18_Witness ==
  /\ connectPc = "failed" /\ getsAtTerminal = 0
  /\ createFailures = 0 /\ pollFailures = 0
  /\ numNotReady = 3 /\ posts = 1 /\ gets = 4

\* --------------------------------------------------------------------- C19
\* C19: when the caller aborts the signal given to execution a, no other
\* execution b is touched: b keeps its position, its messages, its signal and
\* its message listeners; the session-level signal does not fire and the
\* channel is neither closed nor forgotten.
C19_AbortRejectsOnlyItsOwn ==
  [][\A a \in Ops :
       (userSig[a] = "live" /\ userSig'[a] = "aborted") =>
       /\ \A b \in Ops \ {a} :
            /\ pc'[b] = pc[b] /\ sent'[b] = sent[b]
            /\ execAborted'[b] = execAborted[b]
            /\ rejectCause'[b] = rejectCause[b]
            /\ \A r \in {1, 2} :
                 MsgListener(b, r) \in sockListeners =>
                 MsgListener(b, r) \in sockListeners'
       /\ sessionAborted' = sessionAborted
       /\ ws' = ws /\ sockState' = sockState /\ closeCalls' = closeCalls]_vars

\* the second call was aborted in its first round-trip while the first call,
\* made before it, is still awaiting its result on the open channel
C19_Witness ==
  /\ userSig[2] = "aborted" /\ abortPhase[2] = "wait1" /\ pc[2] = "rejected"
  /\ pc[1] = "wait2" /\ MsgListener(1, 2) \in sockListeners
  /\ ~sessionAborted /\ ws # 0 /\ sockState[ws] = "open"

\* --------------------------------------------------------------------- C20
\* C20: the lifecycle state never moves backward through unestablished,
\* provisioning, channel-connecting, ready, closed; the channel reference is
\* set in the ready state only, and once the connection is closed it is unset
\* and stays unset.
C20_LifecycleForward ==
  /\ [][Phase' >= Phase]_vars
  /\ [](ws # 0 <=> Phase = 3)
  /\ [][Phase = 4 => ws' = 0]_vars

\* closed by the caller after a connect that needed two channel attempts
C20_Witness ==
  /\ Phase = 4 /\ connectPc = "done" /\ ws = 0
  /\ sockFailures = 1 /\ nSockets = 2 /\ numNotReady >= 1

\* the connection from construction, with close() also run on the instance
\* while the channel is being opened
NextEarlyClose ==
  \/ Next
  \/ CloseWhileOpening
  \/ RetryAfterAbort

SpecEarlyClose == Init /\ [][NextEarlyClose]_vars

\* a ready connection held in a resource scope: the caller never calls
\* close(), the end of the scope runs the finalizer
NextDispose ==
  \/ \E e \in Ops, sg \in CallerSignals : Execute(e, sg)
  \/ \E m \in Messages : Deliver(m)
  \/ \E e \in Ops : UserAbort(e)
  \/ \E s \in SockIds : TokenTimeout(s)
  \/ WsErrorEvent
  \/ WsCloseEvent
  \/ Dispose

SpecDispose == InitReady /\ [][NextDispose]_vars

\* one run of asyncOperationWithRetry, whatever the operation and the
\* retryOn callback do
NextRetry ==
  \/ EngStart
  \/ \E threw \in BOOLEAN : EngAttemptSettles(threw)
  \/ \E r \in Randoms : EngRetry(r)
  \/ EngDelayElapses
  \/ EngSettle
  \/ EngRetryOnThrows

InitRetry == Init /\ cfg = "ok" /\ protocolVersion = PROTOCOL_VERSION

SpecRetry == InitRetry /\ [][NextRetry]_vars

\* the channel delivers the acknowledgement execution e is waiting for
DeliverAck(e) ==
  /\ pc[e] = "wait1"
  /\ \E m \in StateEvents : AckFor(e, m) /\ Deliver(m)

\* the channel delivers, as a binary frame, the result execution e is
\* waiting for
DeliverResult(e) ==
  /\ pc[e] = "wait2"
  /\ \E m \in ResultEvents : ResultFor(e, m) /\ Deliver(m)

\* a ready connection on a channel that, while it is open, does deliver the
\* two messages each execution waits for; handleMessage and the continuation
\* of execute() run as soon as the message event is dispatched
SpecLive ==
  /\ InitReady /\ [][NextExec]_vars
  /\ \A e \in Ops : WF_vars(DeliverAck(e)) /\ WF_vars(DeliverResult(e))

\* --------------------------------------------------------------------- C21
\* C21: at most one socket of a connection is not closed at any time: a
\* socket is constructed only when every earlier one has been closed (with a
\* close() call made on it), and never once an attempt has opened.
C21_LiveSockets == {s \in SockIds : sockState[s] \in {"connecting", "open"}}

C21_OneLiveSocket ==
  /\ [](/\ Cardinality(C21_LiveSockets) <= 1
        /\ \A s \in SockIds : sockState[s] = "closed" => closeCalls[s] >= 1
        /\ \A s \in SockIds : s > nSockets <=> sockState[s] = "unbuilt")
  /\ [][nSockets' # nSockets =>
          /\ nSockets' = nSockets + 1
          /\ \A s \in 1..nSockets : sockState'[s] = "closed"
          /\ \A s \in SockIds : sockState[s] # "open"
          /\ ws = 0]_vars
  /\ [][connectPc = "done" => nSockets' = nSockets]_vars

\* the third socket opened after the first two were closed
C21_Witness ==
  /\ connectPc = "done" /\ nSockets = 3 /\ sockFailures = 2
  /\ sockState[1] = "closed" /\ sockState[2] = "closed" /\ sockState[3] = "open"

\* --------------------------------------------------------------------- C22
\* C22: an open attempt rejected because the session signal fired is not
\* retried: from then on the retry engine starts no further attempt and no
\* further socket is constructed.
C22_AbortedOpenNotRetried ==
  [][sessionAborted /\ connectPc = "opening" =>
       attempts' = attempts /\ nSockets' = nSockets]_vars

\* --------------------------------------------------------------------- C23
\* C23: below protocol 1.1.0 no cancel message is ever sent; from 1.1.0 on a
\* cancel message carries only the id of an execution whose wait was aborted
\* (the signal fired at the call or while one of its waits was pending).
C23_WaitAborted(e) == abortPhase[e] \in {"call", "wait1", "wait2"}

C23_CancelOnlyForAbortedWaits ==
  \A e \in Ops :
    Count(sent[e], "cancel") >= 1 => CancelCapable /\ C23_WaitAborted(e)

\* --------------------------------------------------------------------- C24
\* C24: the finalizer [Symbol.dispose]() is equivalent to close(): from every
\* state, a step of one is a step of the other, with the same resulting state
\* and the same calls made on the channel (listeners removed, close calls,
\* messages sent).
C24_DisposeIsClose == [][Dispose <=> Close]_vars

\* the finalizer ran with an execution pending: the session signal rejected
\* it, the channel was closed and forgotten
C24_Witness ==
  /\ sessionAborted /\ ws = 0 /\ wsListeners = <<>>
  /\ sockState[1] = "closed" /\ closeCalls[1] >= 1
  /\ \E e \in Ops : rejectCause[e] = "aborted" /\ AbortBy(e) = "session"

\* --------------------------------------------------------------------- C25
\* C25: once connect() has opened the channel, the firing of a per-attempt
\* timeout token (of the attempt that opened it or of an earlier one) leaves
\* the channel as it is: no close() call is made on it and it stays open.
C25_TimeoutSparesOpenChannel ==
  [][(/\ connectPc = "done" /\ ws # 0
      /\ sessionAborted' = sessionAborted
      /\ attemptAborted' # attemptAborted)
     => (closeCalls'[ws] = closeCalls[ws] /\ sockState'[ws] = sockState[ws])]_vars

\* --------------------------------------------------------------------- C26
\* C26: once an execute() has settled by resolving or by an error event, no
\* cancel message with its id is sent any more, whatever aborts or closes
\* afterwards.
C26_Settled(e) ==
  pc[e] = "resolved" \/ (pc[e] = "rejected" /\ rejectCause[e] = "error")

C26_NoCancelAfterSettle ==
  [][\A e \in Ops :
       C26_Settled(e) => Count(sent'[e], "cancel") = Count(sent[e], "cancel")]_vars

\* --------------------------------------------------------------------- C27
\* C27: at most one cancel message is ever sent for an execution id, in
\* whichever round-trip its wait is aborted.
C27_AtMostOneCancel ==
  \A e \in Ops : abortPhase[e] \in {"wait1", "wait2"} =>
    Count(sent[e], "cancel") <= 1

\* --------------------------------------------------------------------- C28
\* C28: execute() called on a ready connection with a signal that is already
\* aborted rejects, and no execute_sql message is sent for the call.
C28_AbortedAtCallSendsNothing ==
  \A e \in Ops : (userSig[e] = "aborted" /\ abortPhase[e] = "call") =>
    pc[e] = "rejected" /\ Count(sent[e], "execute_sql") = 0

\* --------------------------------------------------------------------- C29
\* C29: a wait settles at most once: the outcome of a settled execute() is
\* never changed by what arrives or happens later, and a message listener is
\* on the channel only for the wait that is pending (it is deregistered at
\* the moment its wait settles).
C29_SettlesOnce ==
  /\ [](\A e \in Ops, r \in {1, 2} :
          MsgListener(e, r) \in sockListeners =>
            Pending(e) /\ RoundOf(pc[e]) = r)
  /\ [][\A e \in Ops :
          pc[e] \in {"resolved", "rejected"} =>
            /\ pc'[e] = pc[e]
            /\ rejectCause'[e] = rejectCause[e]
            /\ resolvedWith'[e] = resolvedWith[e]]_vars

\* the first execution resolved and stayed resolved when an error event
\* arrived afterwards (it rejected the second one, called later); the
\* channel is still open and carries no message listener
C29_Witness ==
  /\ pc[1] = "resolved" /\ resolvedWith[1] = 1
  /\ pc[2] = "rejected" /\ rejectCause[2] \in {"error", "foreignError"}
  /\ ws # 0 /\ sockState[ws] = "open"
  /\ \A e \in Ops, r \in {1, 2} : MsgListener(e, r) \notin sockListeners

\* --------------------------------------------------------------------- C30
\* C30: a pending wait of execution e resolves only in a step that receives
\* the awaited kind with state succeeded and id e (state_updated in the first
\* round-trip, execution_result in the second); apart from error events,
\* aborts and close, every other step (any other inbound message) leaves it
\* pending with its listener registered and sends nothing for e.
C30_ResolvesOnlyOnMatch ==
  /\ [](\A e \in Ops : (pc[e] = "wait2" /\ recvResult[e]) =>
          /\ sent[e] = <<"execute_sql", "retrieve_results">>
          /\ MsgListener(e, 2) \in sockListeners)
  /\ [][\A e \in Ops :
          (Pending(e) /\ execAborted'[e] = execAborted[e]) =>
            /\ (pc[e] = "wait1" /\ pc'[e] # pc[e] /\ rejectCause'[e] = rejectCause[e])
                 => (pc'[e] = "wait2" /\ ~recvSucc[e] /\ recvSucc'[e])
            /\ (pc[e] = "wait2" /\ pc'[e] # pc[e]
                   /\ rejectCause'[e] \notin {"error", "foreignError"})
                 => (/\ recvResult'[e]
                     /\ \/ pc'[e] = "resolved" /\ resolvedWith'[e] = e
                        \/ pc'[e] = "rejected" /\ rejectCause'[e] = "decode")
            /\ pc'[e] = pc[e]
                 => (/\ sent'[e] = sent[e]
                     /\ MsgListener(e, RoundOf(pc[e])) \in sockListeners')]_vars

\* a text-framed execution_result with its id reached the second wait of an
\* execution: not the awaited kind (the payload is not binary), so the wait
\* is still pending, its listener registered, nothing sent
C30_Witness ==
  \E e \in Ops :
    /\ pc[e] = "wait2" /\ recvResult[e]
    /\ MsgListener(e, 2) \in sockListeners
    /\ sent[e] = <<"execute_sql", "retrieve_results">>

\* --------------------------------------------------------------------- C31
\* C31: the polling budget counts failed polls only: while polling, the
\* failure counter equals the number of transient failures seen so far (at
\* most 3), a poll returning a not-ready status neither raises nor resets it,
\* and the 4th transient failure ends connect() however many not-ready polls
\* came before or in between.
C31_BudgetCountsFailuresOnly ==
  /\ [](/\ connectPc = "polling" =>
             numFailedAttempts = pollFailures /\ pollFailures <= NUM_RESLIENCY_RETRIES
        /\ pollFailures <= NUM_RESLIENCY_RETRIES + 1
        /\ pollFailures = NUM_RESLIENCY_RETRIES + 1 => connectPc = "failed")
  /\ [][numNotReady' = numNotReady + 1 =>
          /\ numFailedAttempts' = numFailedAttempts
          /\ pollFailures' = pollFailures
          /\ connectPc' = "polling"]_vars
  /\ [][(connectPc = "polling" /\ pollFailures' = pollFailures + 1) =>
          connectPc' = (IF pollFailures < NUM_RESLIENCY_RETRIES
                        THEN "polling" ELSE "failed")]_vars

\* the 4th transient failure was fatal after as many not-ready polls as the
\* bound allows: 8 GETs issued, 4 of them failed
C31_Witness ==
  /\ connectPc = "failed" /\ pollFailures = 4 /\ numFailedAttempts = 3
  /\ numNotReady = MaxPolls /\ gets = MaxPolls + 4

\* --------------------------------------------------------------------- C32
\* C32: asyncOperationWithRetry has performed exactly 1 + (number of times
\* retryOn returned true) attempts when it settles, never starts an attempt
\* while one is in flight or being decided, calls retryOn with the 0-based
\* index of the attempt that just settled and with exactly one of error and
\* result set, and when retryOn returns false settles with the outcome of
\* the last attempt: rejected with its error iff it threw, resolved with its
\* result otherwise.
C32_EngineFollowsLastAttempt ==
  /\ [](/\ engPc \in {"attempting", "deciding", "resolved", "rejected"} =>
             engPerformed = 1 + engTrue
        /\ engPc \in {"deciding", "resolved", "rejected"} =>
             /\ engArgs.attempts = engPerformed - 1
             /\ (engArgs.error = 0) # (engArgs.result = 0)
             /\ engArgs.error \in {0, engPerformed}
             /\ engArgs.result \in {0, engPerformed}
        /\ (engPc = "rejected" /\ ~engThrew) =>
             engSettled = [error |-> engPerformed, result |-> 0] /\ engLast.error # 0
        /\ engPc = "resolved" =>
             engSettled = [error |-> 0, result |-> engPerformed] /\ engLast.error = 0)
  /\ [][engPerformed' # engPerformed =>
          /\ engPerformed' = engPerformed + 1
          /\ engPc \in {"idle", "delaying"} /\ engPc' = "attempting"]_vars

\* the engine resolved with the result of its fourth attempt after three
\* attempts that threw
C32_Witness ==
  /\ engPc = "resolved" /\ engPerformed = 4 /\ engTrue = 3
  /\ engSettled = [error |-> 0, result |-> 4]
  /\ engArgs = [attempts |-> 3, error |-> 0, result |-> 4]

\* --------------------------------------------------------------------- C37
\* C37: when the retryOn callback throws or rejects, asyncOperationWithRetry
\* rejects with that failure at once: no further attempt is performed and no
\* further backoff delay is taken, then or later.
C37_RetryOnFailureIsFatal ==
  /\ [](engThrew => engPc = "rejected" /\ engSettled.error = -1)
  /\ [][engThrew' /\ ~engThrew =>
          /\ engPerformed' = engPerformed /\ engTrue' = engTrue
          /\ engDelay' = engDelay /\ engAttempts' = engAttempts]_vars
  /\ [][(engPc = "resolved" \/ engPc = "rejected") => engVars' = engVars]_vars

\* retryOn threw after the third attempt, which had returned a result
C37_Witness ==
  /\ engThrew /\ engPc = "rejected" /\ engSettled.error = -1
  /\ engPerformed = 3 /\ engTrue = 2 /\ engLast.result = 3

\* --------------------------------------------------------------------- C38
\* C38: the backoff delay taken after attempt index a is in [500, 1000] ms
\* for a <= 1, in [1000, 2000] for a = 2 and in [2500, 5000] for a >= 3: the
\* base delay scaled by a factor between 0.5 and 1.0.
C38_Base(a) == IF a <= 1 THEN 1000 ELSE IF a = 2 THEN 2000 ELSE 5000

C38_BackoffWithinBounds ==
  /\ \A a \in 0..MaxAttempts, r \in Randoms :
        /\ 2 * backoffRetry(a, r) >= C38_Base(a)
        /\ backoffRetry(a, r) <= C38_Base(a)
        /\ backoffRetry(a, r) >= 500 /\ backoffRetry(a, r) <= 5000
  /\ engPc = "delaying" =>
        /\ 2 * engDelay >= C38_Base(engAttempts)
        /\ engDelay <= C38_Base(engAttempts)

\* a delay drawn above the halfway point of the longest base delay
C38_Witness ==
  /\ engPc = "delaying" /\ engAttempts = 3
  /\ engDelay > 2500 /\ engDelay < 5000

\* --------------------------------------------------------------------- C33
\* C33: when the caller's signal or the session signal fires while execute()
\* awaits its second round-trip, the call is rejected as aborted and stays
\* so whatever is delivered afterwards (its listener is off the channel);
\* a caller abort in that round-trip leaves the channel open.
C33_AbortSecondRoundTrip ==
  /\ [](\A e \in Ops : abortPhase[e] = "wait2" =>
          /\ pc[e] = "rejected" /\ rejectCause[e] = "aborted"
          /\ resolvedWith[e] = -1
          /\ Count(sent[e], "retrieve_results") = 1
          /\ MsgListener(e, 2) \notin sockListeners)
  /\ [][\A e \in Ops :
          (pc[e] = "wait2" /\ userSig[e] = "live" /\ userSig'[e] = "aborted")
          => (/\ pc'[e] = "rejected"
              /\ ws' = ws /\ sockState' = sockState /\ closeCalls' = closeCalls)]_vars
  /\ [][\A e \in Ops :
          (pc[e] = "wait2" /\ ~sessionAborted /\ sessionAborted')
          => (pc'[e] = "rejected" /\ rejectCause'[e] = "aborted")]_vars

\* the caller aborted during the second round-trip: rejected as aborted,
\* the channel still open, without the listener of the aborted wait
C33_Witness ==
  \E e \in Ops :
    /\ abortPhase[e] = "wait2" /\ AbortBy(e) = "user"
    /\ pc[e] = "rejected" /\ rejectCause[e] = "aborted" /\ recvSucc[e]
    /\ ws # 0 /\ sockState[ws] = "open"
    /\ MsgListener(e, 2) \notin sockListeners

\* --------------------------------------------------------------------- C34
\* C34: an open attempt resolves only at the open event of its own socket
\* and is rejected by an error or close event or by its token firing before
\* that; what decided it stays decided (a rejected attempt's socket never
\* becomes the channel, a resolved connect() stays resolved), and the three
\* temporary listeners are on a socket exactly while its attempt is undecided.
C34_OpenAttemptDecidedOnce ==
  /\ [](/\ \A s \in SockIds : tempListeners[s] <=> sockState[s] = "connecting"
        /\ \A s \in SockIds :
             sockState[s] \in {"open", "closed"} =>
               addCalls[s] >= 3 /\ removeCalls[s] >= 3
        /\ ws # 0 => ws = nSockets /\ connectPc = "done"
        /\ sockFailures <= nSockets)
  /\ [][(ws = 0 /\ ws' # 0) =>
          /\ sockState[ws'] = "connecting" /\ sockState'[ws'] = "open"
          /\ connectPc = "opening" /\ connectPc' = "done"
          /\ removeCalls'[ws'] = removeCalls[ws'] + 3]_vars
  /\ [][sockFailures' # sockFailures =>
          /\ sockState[nSockets] = "connecting" /\ sockState'[nSockets] = "closed"
          /\ removeCalls'[nSockets] = removeCalls[nSockets] + 3
          /\ ws' = 0]_vars
  /\ [][/\ \A s \in SockIds : sockState[s] = "closed" => sockState'[s] = "closed"
        /\ \A s \in SockIds : sockState[s] = "open" => sockState'[s] # "connecting"
        /\ connectPc = "done" => connectPc' = "done"
        /\ connectPc = "failed" => connectPc' = "failed" /\ ws' = 0]_vars

\* the second attempt resolved at the open event of its socket after the
\* first was rejected; no temporary listener is left on either socket
C34_Witness ==
  /\ connectPc = "done" /\ ws = 2 /\ sockFailures = 1
  /\ sockState[1] = "closed" /\ sockState[2] = "open"
  /\ ~tempListeners[1] /\ ~tempListeners[2]
  /\ removeCalls[1] >= 3 /\ removeCalls[2] = 3

\* --------------------------------------------------------------------- C35
\* C35: while the connection is ready its tracked-listener collection holds
\* the error and close listeners and one entry per pending wait, nothing
\* else: the entry of a settled wait is not retained.
C35_TrackedListenersBounded ==
  (connectPc = "done" /\ ws # 0 /\ ~sessionAborted) =>
    /\ Len(wsListeners) = 2 + Cardinality({e \in Ops : Pending(e)})
    /\ \A i \in 1..Len(wsListeners) :
          wsListeners[i] \in {ErrListener, CloseListener}
            \cup {MsgListener(e, RoundOf(pc[e])) : e \in {f \in Ops : Pending(f)}}

\* --------------------------------------------------------------------- C36
\* C36 as stated: an execute() whose two awaited messages are delivered, with
\* no error event, abort, channel failure or close, resolves. Its finite
\* consequence: an execute() is never rejected for any other reason than
\* those (or the channel not being open at the call).
C36_OnlyDisturbancesReject ==
  \A e \in Ops : pc[e] = "rejected" =>
    rejectCause[e] \in {"error", "foreignError", "aborted", "notOpen"}

\* what C36 excludes for execution e: an error event, an abort of its
\* signal, close(), or the channel no longer being open
C36_Disturbed(e) ==
  \/ rejectCause[e] \in {"error", "foreignError", "aborted"}
  \/ execAborted[e] \/ sessionAborted
  \/ (IF ws = 0 THEN TRUE ELSE sockState[ws] # "open")

\* C36 (amended): on a channel that delivers state_updated:succeeded after
\* execute_sql and execution_result after retrieve_results for its id, an
\* execute() that meets no error event, abort, channel failure or close
\* eventually settles, whatever the other executions do: it resolves when
\* the payload of the result decompresses and decodes, and is rejected with
\* the decoding error otherwise.
C36_EventuallySettles ==
  \A e \in Ops :
    Pending(e) ~>
      \/ pc[e] = "resolved"
      \/ pc[e] = "rejected" /\ rejectCause[e] = "decode"
      \/ C36_Disturbed(e)

\* both executions resolved on the open channel, nothing having disturbed
\* either
C36_Witness ==
  /\ \A e \in Ops : pc[e] = "resolved" /\ resolvedWith[e] = e /\ ~C36_Disturbed(e)
  /\ ws # 0 /\ sockState[ws] = "open"

====
